---------------------------- MODULE Spec2Model ----------------------------
(***************************************************************************)
(* A model of tesseract::TFile (src/src/ccutil/serialis.cpp): a byte       *)
(* stream over an owned or borrowed GenericVector<char>, with a cursor, a  *)
(* read/write mode flag and a byte-swap flag.                              *)
(*                                                                         *)
(* One TFile object is modelled together with the heap of byte vectors it  *)
(* allocates or borrows.  Every member function is one action; a call that *)
(* ends the process (ASSERT_HOST, a null dereference, an overflow trap)    *)
(* leaves status different from "alive" and nothing runs after it.         *)
(***************************************************************************)
EXTENDS Integers, Sequences, FiniteSets, TLC

\* ------------------------------------------------------------------ bounds
\* The longest byte vector the model builds when it opens or writes.
MaxLen == 3
\* The longest byte vector of the read sessions ReadSpec starts from.
MaxData == 4
\* The number of  new GenericVector<char>  the model lets the object perform.
MaxAlloc == 2
\* The number of FWrite calls logged in one write session.
MaxWrites == 2
\* The number of read calls logged before the first Rewind of a session.
MaxReads == 2

\* ------------------------------------------------------------- value sets
\* The byte values of the model: '\n' and 'a'.
Byte == {10, 97}
\* The byte FGets stores after the bytes it copied.
NUL == 0

\* The one byte value of the specification Spec, whose claims are about the
\* cursor, the mode and the ownership of the vectors, not about byte values.
Fill == {97}

\* All sequences over the byte set B of length at most n, and exactly n.
Seqs(B, n) == UNION {[1..k -> B] : k \in 0..n}
SeqsOfLen(B, n) == [1..n -> B]

\* nullptr, as a value of data_.
Null == 0
\* The GenericVector<char> the caller owns and may pass to OpenWrite.
Ext == -1
\* The vectors the object itself allocates, in order of allocation.
OwnIds == 1..MaxAlloc
BufIds == OwnIds \cup {Ext}

\* The int arguments <<size, count>> the model passes to FRead, FReadEndian
\* and FWrite: whole elements of one, two and three bytes; a zero size and a
\* zero count; a negative product and a positive product of negatives; and
\* two products that do not fit an int, 3 * 1431655766 = 2^32 + 2 and
\* 2 * 1431655766 = 2^32 - 1431655764.
Args ==
  {<<1, 1>>, <<1, 2>>, <<2, 1>>, <<2, 2>>, <<3, 1>>, <<0, 2>>, <<2, 0>>,
   <<2, -2>>, <<-1, -2>>, <<3, 1431655766>>, <<2, 1431655766>>}
\* The arguments of Spec: one of each kind.
SomeArgs ==
  {<<1, 1>>, <<2, 1>>, <<1, 2>>, <<0, 2>>, <<-1, -2>>, <<3, 1431655766>>}
\* The records of TripSpec: one byte, two bytes, none, and a product that
\* does not fit an int.
TripArgs == {<<1, 1>>, <<2, 1>>, <<0, 2>>, <<3, 1431655766>>}

\* ------------------------------------------------------- 32-bit arithmetic
\* Byte i (0 = least significant) of the two's complement form of a.
Limb(a, i) == (a \div (256 ^ i)) % 256

\* a * b as a 32-bit int multiplication computes it when the result wraps:
\* the low 32 bits of the product, read as a signed value.  Computed limb by
\* limb so that no intermediate value leaves the 32-bit range.
Mul32(a, b) ==
  LET c0 == Limb(a,0) * Limb(b,0)
      c1 == Limb(a,0) * Limb(b,1) + Limb(a,1) * Limb(b,0) + (c0 \div 256)
      c2 == Limb(a,0) * Limb(b,2) + Limb(a,1) * Limb(b,1)
            + Limb(a,2) * Limb(b,0) + (c1 \div 256)
      c3 == Limb(a,0) * Limb(b,3) + Limb(a,1) * Limb(b,2)
            + Limb(a,2) * Limb(b,1) + Limb(a,3) * Limb(b,0) + (c2 \div 256)
      r3 == c3 % 256
      top == IF r3 >= 128 THEN r3 - 256 ELSE r3
  IN  top * 16777216 + (c2 % 256) * 65536 + (c1 % 256) * 256 + (c0 % 256)

\* Whether the mathematical product a * b does not fit a signed 32-bit int.
Overflows(a, b) == a /= 0 /\ (Mul32(a, b) \div a) /= b

\* The outcomes of evaluating the int expression  a * b : its value, or on
\* signed overflow (undefined behaviour) either the wrapped value or a trap.
MulOutcomes(a, b) ==
  {[trap |-> FALSE, val |-> Mul32(a, b)]}
  \cup (IF Overflows(a, b) THEN {[trap |-> TRUE, val |-> 0]} ELSE {})

\* C's int division a / b for a >= 0 and b /= 0 (truncation towards zero).
CDiv(a, b) == IF b > 0 THEN a \div b ELSE 0 - (a \div (0 - b))

\* ------------------------------------------------------------------- state
VARIABLES
  offset_,         \* TFile::offset_
  data_,           \* TFile::data_  : Null or the id of a vector
  data_is_owned_,  \* TFile::data_is_owned_
  is_writing_,     \* TFile::is_writing_
  swap_,           \* TFile::swap_
  heap,            \* the contents of every vector, by id
  nalloc,          \* how many vectors the object has allocated so far
  frees,           \* how many times each vector has been deleted
  uaf,             \* whether a deleted vector has been dereferenced
  status,          \* "alive", "destroyed", or how the process ended
  call,            \* the last member function called, its inputs and results
  track,           \* whether the three history variables below record
  wlog,            \* the FWrite calls of the current write session
  saved,           \* what the last CloseWrite handed to the writer
  rpos,            \* how many logged writes have been read back, or -1
  rlog             \* the read calls of the session, before and after Rewind

vars == <<offset_, data_, data_is_owned_, is_writing_, swap_, heap, nalloc,
          frees, uaf, status, call, track, wlog, saved, rpos, rlog>>

tfile == <<offset_, data_, data_is_owned_, is_writing_, swap_>>
memory == <<heap, nalloc, frees>>
history == <<track, wlog, saved, rpos, rlog>>

\* The record of a call: op names the member function, size/count/null are
\* its arguments (null: the buffer argument is nullptr), off0 is offset_ on
\* entry, ret the value returned (a bool as 1/0, a pointer as 1 or 0 for
\* nullptr) and out the bytes stored through the buffer argument.
\* fp is filled in for a logged Open(FILE*): the stream, what the library
\* calls returned, and the end_offset argument.
NoFp == [file |-> <<>>, pos |-> 0, end_offset |-> 0, tell_ok |-> TRUE,
         end_ok |-> TRUE, set_ok |-> TRUE, nread |-> 0]
Call(op, size, count, null, off0, ret, out) ==
  [op |-> op, size |-> size, count |-> count, null |-> null,
   off0 |-> off0, ret |-> ret, out |-> out, fp |-> NoFp]

NoSave == [valid |-> FALSE, bytes |-> <<>>, log |-> <<>>, ok |-> FALSE]

\* The read log of a new session: first holds the calls made before the
\* first Rewind, again those made since the last Rewind.
NoReads == [first |-> <<>>, again |-> <<>>, rewound |-> FALSE]

\* ------------------------------------------------------------ construction
\* TFile::TFile(): no vector, reading, no swap.  The caller's vector holds
\* some earlier contents.
Init ==
  /\ offset_ = 0
  /\ data_ = Null
  /\ data_is_owned_ = FALSE
  /\ is_writing_ = FALSE
  /\ swap_ = FALSE
  /\ heap = [b \in BufIds |-> IF b = Ext THEN <<97>> ELSE <<>>]
  /\ nalloc = 0
  /\ frees = [b \in BufIds |-> 0]
  /\ uaf = FALSE
  /\ status = "alive"
  /\ call = Call("TFile", 0, 0, FALSE, 0, 0, <<>>)
  /\ track = FALSE
  /\ wlog = <<>>
  /\ saved = NoSave
  /\ rpos = -1
  /\ rlog = NoReads

\* ------------------------------------------------------------ heap helpers
\* new GenericVector<char>: the next unused id.
NewId == nalloc + 1
CanAlloc == nalloc < MaxAlloc

\* Dereferencing vector d: a use after free if d has been deleted.
Deref(d) == uaf \/ frees[d] > 0

\* delete d.
Delete(f, d) == [f EXCEPT ![d] = @ + 1]

\* The  if (!data_is_owned_) { data_ = new ...; data_is_owned_ = true; }
\* block of the three Open overloads: the vector the object reads into.
Acquire == IF data_is_owned_ THEN data_ ELSE NewId
AcquireCount == IF data_is_owned_ THEN nalloc ELSE nalloc + 1
CanAcquire == data_is_owned_ \/ CanAlloc

\* ---------------------------------------------------------- small pieces
\* offset_ = 0, the first thing every Open overload and OpenWrite do.
OpenCursorKept == offset_
OpenCursor == 0

\* ASSERT_HOST(!is_writing_) of FGets, FRead and Rewind.
ReadAllowedAlways == TRUE
ReadAllowed == ~is_writing_

\* ASSERT_HOST(is_writing_) of CloseWrite and FWrite.
WriteAllowed == is_writing_

\* ------------------------------------------------------- history helpers
\* A call outside the write / save / reopen / read-back sequence forgets
\* what was saved; the history variables record, they do not steer.
Forget == saved' = NoSave /\ rpos' = -1 /\ track' = track

\* The write log after an Open or OpenWrite: a new session, nothing written.
NewLog == <<>>

\* The write log after one more FWrite.
Logged(size, count, bytes) ==
  IF track
    THEN Append(wlog, [size |-> size, count |-> count, bytes |-> bytes])
    ELSE wlog

\* The read log after the read call c returned.
ReadLogged(c) ==
  IF ~track THEN rlog
  ELSE IF rlog.rewound THEN [rlog EXCEPT !.again = Append(@, c)]
  ELSE [rlog EXCEPT !.first = Append(@, c)]

\* The read log after Rewind: the calls that follow are compared with the
\* calls made before the first Rewind.
RewindLogged ==
  IF track THEN [rlog EXCEPT !.again = <<>>, !.rewound = TRUE] ELSE rlog

\* The process ends inside the call: nothing of the object or heap changes.
Die(how, c) ==
  /\ status' = how
  /\ call' = c
  /\ UNCHANGED <<tfile, memory, uaf, history>>

\* ------------------------------------------------------------- Open(path)
\* bool TFile::Open(const STRING& filename, FileReader reader): the reader
\* (or LoadDataFromFile) leaves some contents in the vector and reports ok.
OpenPath(ok, content) ==
  /\ status = "alive"
  /\ CanAcquire
  /\ data_' = Acquire
  /\ data_is_owned_' = TRUE
  /\ nalloc' = AcquireCount
  /\ offset_' = OpenCursor
  /\ is_writing_' = FALSE
  /\ swap_' = FALSE
  /\ heap' = [heap EXCEPT ![Acquire] = content]
  /\ uaf' = Deref(Acquire)
  /\ call' = Call("OpenPath", 0, 0, FALSE, offset_, IF ok THEN 1 ELSE 0, <<>>)
  /\ wlog' = NewLog
  /\ rlog' = NoReads
  /\ IF ok /\ saved.valid /\ content = saved.bytes
       THEN saved' = saved /\ rpos' = 0 /\ track' = track
       ELSE Forget
  /\ UNCHANGED <<frees, status>>

\* ------------------------------------------------------ Open(data, size)
\* bool TFile::Open(const char* data, int size): bytes is data[0..size).
OpenMem(bytes) ==
  /\ status = "alive"
  /\ CanAcquire
  /\ offset_' = OpenCursor
  /\ data_' = Acquire
  /\ data_is_owned_' = TRUE
  /\ nalloc' = AcquireCount
  /\ is_writing_' = FALSE
  /\ swap_' = FALSE
  /\ heap' = [heap EXCEPT ![Acquire] = bytes]
  /\ uaf' = Deref(Acquire)
  /\ call' = Call("OpenMem", Len(bytes), 0, FALSE, offset_, 1, <<>>)
  /\ wlog' = NewLog
  /\ rlog' = NoReads
  /\ IF saved.valid /\ bytes = saved.bytes
       THEN saved' = saved /\ rpos' = 0 /\ track' = track
       ELSE Forget
  /\ UNCHANGED <<frees, status>>

\* ------------------------------------------------- Open(FILE*, end_offset)
\* The open handle: file is the stream's bytes, pos what ftell reports.
\* fread(ptr, 1, size, fp) from position pos: the bytes it can deliver.
AvailableFromStart(file, pos, size) ==
  SubSeq(file, 1, IF size < Len(file) THEN size ELSE Len(file))
Available(file, pos, size) ==
  SubSeq(file, pos + 1, IF pos + size < Len(file) THEN pos + size ELSE Len(file))

\* The results of ftell, fseek(SEEK_END) and fseek(SEEK_SET): all succeed,
\* or the first of them that is called and fails.
FpResults ==
  {[tell_ok |-> TRUE, end_ok |-> TRUE, set_ok |-> TRUE],
   [tell_ok |-> FALSE, end_ok |-> TRUE, set_ok |-> TRUE],
   [tell_ok |-> TRUE, end_ok |-> FALSE, set_ok |-> TRUE],
   [tell_ok |-> TRUE, end_ok |-> TRUE, set_ok |-> FALSE]}
FpAllOk(io) == io.tell_ok /\ io.end_ok /\ io.set_ok

\* The end_offset arguments: negative, or from pos to one past the end of
\* the stream; a failing fseek is only called for a negative end_offset.
FpEnds(file, pos, io) ==
  IF io.tell_ok /\ ~FpAllOk(io) THEN {-1}
  ELSE {-1} \cup {e \in pos..(Len(file) + 1) : e - pos <= MaxLen}

\* The streams: when a call fails before fread the bytes play no part.
FpFiles(B, io) == IF FpAllOk(io) THEN Seqs(B, MaxLen) ELSE {<<>>}

\* The number of bytes fread delivers: all it can, or fewer on a read error.
FpReads(file, pos, end_offset, io) ==
  IF ~FpAllOk(io) THEN {0}
  ELSE LET endpos == IF end_offset < 0 THEN Len(file) ELSE end_offset
       IN  0..Len(Available(file, pos, endpos - pos))

\* The bytes of the resized vector that fread did not store.
FpTails(B, file, pos, end_offset, nread, io) ==
  IF ~FpAllOk(io) THEN {<<>>}
  ELSE LET endpos == IF end_offset < 0 THEN Len(file) ELSE end_offset
       IN  SeqsOfLen(B, endpos - pos - nread)

\* bool TFile::Open(FILE* fp, int64_t end_offset).  tell_ok, end_ok and
\* set_ok are the results of ftell, fseek(SEEK_END) and fseek(SEEK_SET);
\* nread is what fread returns; tailbytes stand for the part of the resized
\* vector fread did not fill (resize_no_init leaves it uninitialised).
\* The model passes end_offset < 0 or end_offset >= pos only, and takes the
\* second ftell to succeed: GenericVector's behaviour on a negative size is
\* not part of serialis.cpp.
OpenFp(file, pos, end_offset, tell_ok, end_ok, set_ok, nread, tailbytes) ==
  LET fp == IF track
              THEN [file |-> file, pos |-> pos, end_offset |-> end_offset,
                    tell_ok |-> tell_ok, end_ok |-> end_ok,
                    set_ok |-> set_ok, nread |-> nread]
              ELSE NoFp
  IN
  /\ status = "alive"
  /\ offset_' = OpenCursor
  /\ wlog' = wlog
  /\ rlog' = NoReads
  /\ Forget
  /\ UNCHANGED <<frees, status>>
  /\ IF ~tell_ok \/ (end_offset < 0 /\ (~end_ok \/ ~set_ok))
       THEN /\ call' = [Call("OpenFp", 0, 0, FALSE, offset_, 0, <<>>)
                         EXCEPT !.fp = fp]
            /\ UNCHANGED <<data_, data_is_owned_, is_writing_, swap_, heap,
                           nalloc, uaf>>
       ELSE LET endpos == IF end_offset < 0 THEN Len(file) ELSE end_offset
                size == endpos - pos
                got == SubSeq(Available(file, pos, size), 1, nread)
            IN  /\ CanAcquire
                /\ nread <= Len(Available(file, pos, size))
                /\ Len(tailbytes) = size - nread
                /\ is_writing_' = FALSE
                /\ swap_' = FALSE
                /\ data_' = Acquire
                /\ data_is_owned_' = TRUE
                /\ nalloc' = AcquireCount
                /\ heap' = [heap EXCEPT ![Acquire] = got \o tailbytes]
                /\ uaf' = Deref(Acquire)
                /\ call' = [Call("OpenFp", size, 0, FALSE, offset_,
                                 IF nread = size THEN 1 ELSE 0, <<>>)
                              EXCEPT !.fp = fp]

\* -------------------------------------------------------------- OpenWrite
\* data_is_owned_ after an external vector is adopted (line 134).
OwnedAfterAdoptKept == data_is_owned_
OwnedAfterAdopt == FALSE

\* Line 141: the held vector after truncate(0).
WriteStartKept(bytes) == bytes
WriteStart(bytes) == <<>>

\* void TFile::OpenWrite(GenericVector<char>* data): ext says data /= nullptr
\* (the caller's vector Ext).
OpenWrite(ext) ==
  /\ status = "alive"
  /\ offset_' = OpenCursor
  /\ IF ext
       THEN /\ frees' = IF data_is_owned_ THEN Delete(frees, data_) ELSE frees
            /\ data_' = Ext
            /\ data_is_owned_' = OwnedAfterAdopt
            /\ nalloc' = nalloc
       ELSE IF ~data_is_owned_
              THEN /\ CanAlloc
                   /\ data_' = NewId
                   /\ data_is_owned_' = TRUE
                   /\ nalloc' = nalloc + 1
                   /\ frees' = frees
              ELSE UNCHANGED <<data_, data_is_owned_, nalloc, frees>>
  /\ is_writing_' = TRUE
  /\ swap_' = FALSE
  /\ heap' = [b \in BufIds |->
                IF b = data_' THEN WriteStart(heap[b])
                ELSE IF frees'[b] > 0 THEN <<>> ELSE heap[b]]
  /\ uaf' = (uaf \/ frees'[data_'] > 0)
  /\ call' = Call("OpenWrite", 0, 0, ~ext, offset_, 0, <<>>)
  /\ wlog' = NewLog
  /\ rlog' = NoReads
  /\ Forget
  /\ UNCHANGED status

\* ------------------------------------------------------------------ FRead
\* Lines 116-117: the request clamped to the bytes left after the cursor.
ReadClamp(avail, required_size) ==
  IF avail < required_size THEN avail ELSE required_size

\* Lines 118-119: what memcpy stores through a non-null buffer.
ReadCopy(bytes, off, required_size, null) ==
  IF required_size > 0 /\ ~null
    THEN SubSeq(bytes, off + 1, off + required_size)
    ELSE <<>>

\* Line 120: the cursor after the read.
ReadAdvanceNone(off, required_size) == off
ReadAdvance(off, required_size) == off + required_size

\* Line 121: the value returned.
ReadCount(required_size, size) == CDiv(required_size, size)

\* int TFile::FRead(void* buffer, int size, int count) as a function of the
\* state: how the call ends (fault), what it returns (ret), what it stores
\* through buffer (out), the new cursor (off) and whether it dereferenced
\* data_ (deref).  prod is an outcome of  size * count .
FReadResult(null, size, count, prod) ==
  LET stop(how) == [fault |-> how, ret |-> 0, out |-> <<>>, off |-> offset_,
                    deref |-> FALSE]
  IN  IF ~ReadAllowed THEN stop("assert")
      ELSE IF prod.trap THEN stop("trap")
      ELSE IF prod.val <= 0 THEN stop("none")
      ELSE IF data_ = Null THEN stop("segv")
      ELSE LET required_size ==
                 ReadClamp(Len(heap[data_]) - offset_, prod.val)
           IN  [fault |-> "none",
                ret |-> ReadCount(required_size, size),
                out |-> ReadCopy(heap[data_], offset_, required_size, null),
                off |-> ReadAdvance(offset_, required_size),
                deref |-> TRUE]

\* Whether this FRead is the next read of a read-back of what was saved.
ReadsBack(null, size, count) ==
  /\ saved.valid
  /\ rpos >= 0
  /\ rpos < Len(saved.log)
  /\ ~null
  /\ saved.log[rpos + 1].size = size
  /\ saved.log[rpos + 1].count = count

FRead(null, size, count, prod) ==
  LET r == FReadResult(null, size, count, prod)
      c == Call("FRead", size, count, null, offset_, r.ret, r.out)
  IN  /\ status = "alive"
      /\ IF r.fault /= "none"
           THEN Die(r.fault, c)
           ELSE /\ offset_' = r.off
                /\ uaf' = IF r.deref THEN Deref(data_) ELSE uaf
                /\ call' = c
                /\ rlog' = ReadLogged(c)
                /\ IF ReadsBack(null, size, count)
                     THEN saved' = saved /\ rpos' = rpos + 1 /\ track' = track
                     ELSE Forget
                /\ UNCHANGED <<data_, data_is_owned_, is_writing_, swap_,
                               memory, status, wlog>>

\* ------------------------------------------------------------ FReadEndian
\* ReverseN(ptr, num_bytes) of helpers.h: the bytes in reverse order.
ReverseN(elem) == [i \in 1..Len(elem) |-> elem[Len(elem) + 1 - i]]

\* Lines 104-107: ReverseN on each of the num_read elements of size bytes.
RECURSIVE SwapLoop(_, _, _, _)
SwapLoop(buf, size, i, num_read) ==
  IF i >= num_read THEN buf
  ELSE SwapLoop(SubSeq(buf, 1, i * size)
                  \o ReverseN(SubSeq(buf, i * size + 1, (i + 1) * size))
                  \o SubSeq(buf, (i + 1) * size + 1, Len(buf)),
                size, i + 1, num_read)

\* Line 103: the loop runs only if swap_ is set.
SwapAlways(swap, buf, size, num_read) == SwapLoop(buf, size, 0, num_read)
SwapIf(swap, buf, size, num_read) ==
  IF swap THEN SwapLoop(buf, size, 0, num_read) ELSE buf

\* int TFile::FReadEndian(void* buffer, int size, int count).  With swap_
\* set and a null buffer, ReverseN is handed a null pointer; it touches
\* memory when the element has at least two bytes.
FReadEndian(null, size, count, prod) ==
  LET r == FReadResult(null, size, count, prod)
      nullswap == swap_ /\ null /\ r.ret > 0 /\ size >= 2
      out == IF null THEN <<>> ELSE SwapIf(swap_, r.out, size, r.ret)
      c == Call("FReadEndian", size, count, null, offset_, r.ret, out)
  IN  /\ status = "alive"
      /\ IF r.fault /= "none"
           THEN Die(r.fault, c)
           ELSE /\ offset_' = r.off
                /\ uaf' = IF r.deref THEN Deref(data_) ELSE uaf
                /\ call' = c
                /\ rlog' = ReadLogged(c)
                /\ status' = IF nullswap THEN "segv" ELSE status
                /\ Forget
                /\ UNCHANGED <<data_, data_is_owned_, is_writing_, swap_,
                               memory, wlog>>

\* ------------------------------------------------------------------ FGets
\* Lines 93-96: the number of bytes the loop copies from bytes at off.
RECURSIVE GetsLoopNoBreak(_, _, _, _)
GetsLoopNoBreak(bytes, off, size, buffer_size) ==
  IF size + 1 < buffer_size /\ off < Len(bytes)
    THEN GetsLoopNoBreak(bytes, off + 1, size + 1, buffer_size)
    ELSE size
RECURSIVE GetsLoop(_, _, _, _)
GetsLoop(bytes, off, size, buffer_size) ==
  IF size + 1 < buffer_size /\ off < Len(bytes)
    THEN IF bytes[off + 1] = 10
           THEN size + 1
           ELSE GetsLoop(bytes, off + 1, size + 1, buffer_size)
    ELSE size

\* The buffer sizes the model passes to FGets.
GetsSizes == 0..3

\* char* TFile::FGets(char* buffer, int buffer_size).  The loop condition
\* reads data_ only when size + 1 < buffer_size.
FGets(buffer_size) ==
  LET c0 == Call("FGets", buffer_size, 0, FALSE, offset_, 0, <<>>)
  IN  /\ status = "alive"
      /\ IF ~ReadAllowed THEN Die("assert", c0)
         ELSE IF 1 < buffer_size /\ data_ = Null THEN Die("segv", c0)
         ELSE LET bytes == IF data_ = Null THEN <<>> ELSE heap[data_]
                  size == GetsLoop(bytes, offset_, 0, buffer_size)
                  out == SubSeq(bytes, offset_ + 1, offset_ + size)
                         \o (IF size < buffer_size THEN <<NUL>> ELSE <<>>)
                  c == Call("FGets", buffer_size, 0, FALSE, offset_,
                            IF size > 0 THEN 1 ELSE 0, out)
              IN  /\ offset_' = offset_ + size
                  /\ uaf' = IF 1 < buffer_size THEN Deref(data_) ELSE uaf
                  /\ call' = c
                  /\ rlog' = ReadLogged(c)
                  /\ Forget
                  /\ UNCHANGED <<data_, data_is_owned_, is_writing_, swap_,
                                 memory, status, wlog>>

\* ----------------------------------------------------------------- Rewind
\* Line 126: the cursor after Rewind.
RewindCursorKept == offset_
RewindCursor == 0

\* void TFile::Rewind().
Rewind ==
  LET c == Call("Rewind", 0, 0, FALSE, offset_, 0, <<>>)
  IN  /\ status = "alive"
      /\ IF ~ReadAllowed THEN Die("assert", c)
         ELSE /\ offset_' = RewindCursor
              /\ call' = c
              /\ rlog' = RewindLogged
              /\ Forget
              /\ UNCHANGED <<data_, data_is_owned_, is_writing_, swap_,
                             memory, uaf, status, wlog>>

\* ----------------------------------------------------------------- FWrite
\* Line 161: the value FWrite returns after appending.
WriteReturnNone(count) == 0
WriteReturn(count) == count

\* Lines 159-160: the vector after push_back of buf[0..total).
WriteAppendShort(bytes, src, total) == bytes \o SubSeq(src, 1, total - 1)
WriteAppend(bytes, src, total) == bytes \o SubSeq(src, 1, total)

\* The caller's buffers of total bytes that still fit the model's vectors.
WriteSources(B, prod) ==
  IF ~prod.trap /\ prod.val > 0 /\ prod.val <= MaxLen
    THEN SeqsOfLen(B, prod.val) ELSE {<<>>}

\* int TFile::FWrite(const void* buffer, int size, int count): src is the
\* caller's buffer, prod an outcome of  size * count .
FWrite(src, size, count, prod) ==
  LET c0 == Call("FWrite", size, count, FALSE, offset_, 0, <<>>)
  IN  /\ status = "alive"
      /\ IF ~WriteAllowed THEN Die("assert", c0)
         ELSE IF prod.trap THEN Die("trap", c0)
         ELSE /\ track => Len(wlog) < MaxWrites
              /\ IF prod.val <= 0
                   THEN /\ src = <<>>
                        /\ call' = c0
                        /\ wlog' = Logged(size, count, <<>>)
                        /\ UNCHANGED <<heap, uaf>>
                   ELSE /\ Len(src) = prod.val
                        /\ Len(heap[data_]) + prod.val <= MaxLen
                        /\ heap' = [heap EXCEPT
                                      ![data_] = WriteAppend(@, src, prod.val)]
                        /\ uaf' = Deref(data_)
                        /\ call' = Call("FWrite", size, count, FALSE, offset_,
                                        WriteReturn(count), <<>>)
                        /\ wlog' = Logged(size, count, src)
              /\ Forget
              /\ UNCHANGED <<tfile, nalloc, frees, status, rlog>>

\* ------------------------------------------------------------- CloseWrite
\* Lines 147 and 149: CloseWrite returns what the writer returned.
CloseResult(ok) == IF ok THEN 1 ELSE 0

\* CloseWrite leaves the mode as it is: the object stays in its write session.
CloseWriteModeCleared == FALSE
CloseWriteMode == is_writing_

\* Lines 146-149: what the writer (or SaveDataToFile) is handed.
WriterInputShort == SubSeq(heap[data_], 1, Len(heap[data_]) - 1)
WriterInput == heap[data_]

\* bool TFile::CloseWrite(const STRING& filename, FileWriter writer): ok is
\* the writer's result.
CloseWrite(ok) ==
  LET c == Call("CloseWrite", 0, 0, FALSE, offset_, CloseResult(ok), <<>>)
  IN  /\ status = "alive"
      /\ IF ~WriteAllowed THEN Die("assert", c)
         ELSE /\ call' = c
              /\ saved' = IF track
                            THEN [valid |-> TRUE, bytes |-> WriterInput,
                                  log |-> wlog, ok |-> ok]
                            ELSE saved
              /\ rpos' = -1
              /\ track' = track
              /\ uaf' = Deref(data_)
              /\ is_writing_' = CloseWriteMode
              /\ UNCHANGED <<offset_, data_, data_is_owned_, swap_, memory,
                             status, wlog, rlog>>

\* --------------------------------------------------------------- set_swap
\* The caller sets the byte-swap flag of an opened read session.
SetSwap(value) ==
  /\ status = "alive"
  /\ ~is_writing_
  /\ data_ /= Null
  /\ swap_' = value
  /\ call' = Call("SetSwap", 0, 0, FALSE, offset_, 0, <<>>)
  /\ UNCHANGED <<offset_, data_, data_is_owned_, is_writing_, memory, uaf,
                 status, history>>

\* ----------------------------------------------------------------- ~TFile
\* TFile::~TFile(): an owned vector is deleted.
Destroy ==
  /\ status = "alive"
  /\ status' = "destroyed"
  /\ frees' = IF data_is_owned_ THEN Delete(frees, data_) ELSE frees
  /\ call' = Call("~TFile", 0, 0, FALSE, offset_, 0, <<>>)
  /\ UNCHANGED <<tfile, heap, nalloc, uaf, history>>

\* ------------------------------------------------------------------- Next
\* Every member function, on vectors of at most MaxLen bytes.
Next ==
  \/ \E ok \in BOOLEAN, content \in Seqs(Fill, MaxLen) : OpenPath(ok, content)
  \/ \E bytes \in Seqs(Fill, MaxLen) : OpenMem(bytes)
  \/ \E io \in FpResults :
       \E file \in FpFiles(Fill, io) :
         \E pos \in 0..Len(file) :
           \E end_offset \in FpEnds(file, pos, io) :
             \E nread \in FpReads(file, pos, end_offset, io) :
               \E tailbytes \in FpTails(Fill, file, pos, end_offset, nread, io) :
                 OpenFp(file, pos, end_offset, io.tell_ok, io.end_ok,
                        io.set_ok, nread, tailbytes)
  \/ \E ext \in BOOLEAN : OpenWrite(ext)
  \/ \E null \in BOOLEAN, a \in SomeArgs :
       \E prod \in MulOutcomes(a[1], a[2]) : FRead(null, a[1], a[2], prod)
  \/ \E null \in BOOLEAN, a \in SomeArgs :
       \E prod \in MulOutcomes(a[1], a[2]) :
         FReadEndian(null, a[1], a[2], prod)
  \/ \E buffer_size \in GetsSizes : FGets(buffer_size)
  \/ Rewind
  \/ \E a \in SomeArgs :
       \E prod \in MulOutcomes(a[1], a[2]) :
         \E src \in WriteSources(Fill, prod) : FWrite(src, a[1], a[2], prod)
  \/ \E ok \in BOOLEAN : CloseWrite(ok)
  \/ \E value \in BOOLEAN : SetSwap(value)
  \/ Destroy

Spec == Init /\ [][Next]_vars

\* ---------------------------------------------------------------- ReadSpec
\* The read operations alone, from every read session that Open(data, size)
\* of a freshly constructed object gives on at most MaxData bytes.
ReadInit ==
  \E bytes \in Seqs(Byte, MaxData) :
    /\ offset_ = 0
    /\ data_ = 1
    /\ data_is_owned_ = TRUE
    /\ is_writing_ = FALSE
    /\ swap_ = FALSE
    /\ heap = [b \in BufIds |-> IF b = Ext THEN <<97>>
                                ELSE IF b = 1 THEN bytes ELSE <<>>]
    /\ nalloc = 1
    /\ frees = [b \in BufIds |-> 0]
    /\ uaf = FALSE
    /\ status = "alive"
    /\ call = Call("OpenMem", Len(bytes), 0, FALSE, 0, 1, <<>>)
    /\ track = FALSE
    /\ wlog = <<>>
    /\ saved = NoSave
    /\ rpos = -1
    /\ rlog = NoReads

ReadNext ==
  \/ \E null \in BOOLEAN, a \in Args :
       \E prod \in MulOutcomes(a[1], a[2]) : FRead(null, a[1], a[2], prod)
  \/ \E null \in BOOLEAN, a \in Args :
       \E prod \in MulOutcomes(a[1], a[2]) :
         FReadEndian(null, a[1], a[2], prod)
  \/ \E buffer_size \in GetsSizes : FGets(buffer_size)
  \/ Rewind
  \/ \E value \in BOOLEAN : SetSwap(value)

ReadSpec == ReadInit /\ [][ReadNext]_vars

\* ---------------------------------------------------------------- TripSpec
\* Write sessions that are saved, reopened from the saved bytes and read
\* back with the arguments of the writes, with the history recorded.  A
\* later write session reuses the vector of the one before it.
TripInit ==
  /\ offset_ = 0
  /\ data_ = Null
  /\ data_is_owned_ = FALSE
  /\ is_writing_ = FALSE
  /\ swap_ = FALSE
  /\ heap = [b \in BufIds |-> IF b = Ext THEN <<97>> ELSE <<>>]
  /\ nalloc = 0
  /\ frees = [b \in BufIds |-> 0]
  /\ uaf = FALSE
  /\ status = "alive"
  /\ call = Call("TFile", 0, 0, FALSE, 0, 0, <<>>)
  /\ track = TRUE
  /\ wlog = <<>>
  /\ saved = NoSave
  /\ rpos = -1
  /\ rlog = NoReads

TripNext ==
  \/ \E ext \in BOOLEAN :
       (data_ = Null \/ ext = ~data_is_owned_) /\ OpenWrite(ext)
  \/ /\ is_writing_
     /\ \E a \in TripArgs :
          \E prod \in MulOutcomes(a[1], a[2]) :
            \E src \in WriteSources(Byte, prod) :
              FWrite(src, a[1], a[2], prod)
  \/ is_writing_ /\ \E ok \in BOOLEAN : CloseWrite(ok)
  \/ saved.valid /\ OpenMem(saved.bytes)
  \/ saved.valid /\ OpenPath(TRUE, saved.bytes)
  \/ /\ rpos >= 0
     /\ rpos < Len(saved.log)
     /\ \E prod \in MulOutcomes(saved.log[rpos + 1].size,
                                 saved.log[rpos + 1].count) :
          FRead(FALSE, saved.log[rpos + 1].size, saved.log[rpos + 1].count,
                prod)

TripSpec == TripInit /\ [][TripNext]_vars

\* ---------------------------------------------------------------- LineSpec
\* The text "ab\ncd".
Sample == <<97, 98, 10, 99, 100>>
\* The buffer sizes passed to FGets when lines are read: none, room for the
\* terminator alone, for one and two characters, and more than any line.
LineSizes == {-1, 0, 1, 2, 3, 10}

\* Line reading alone, from the read session Open(data, size) gives on the
\* sample text or on at most MaxData bytes.
LineInit ==
  \E bytes \in Seqs(Byte, MaxData) \cup {Sample} :
    /\ offset_ = 0
    /\ data_ = 1
    /\ data_is_owned_ = TRUE
    /\ is_writing_ = FALSE
    /\ swap_ = FALSE
    /\ heap = [b \in BufIds |-> IF b = Ext THEN <<97>>
                                ELSE IF b = 1 THEN bytes ELSE <<>>]
    /\ nalloc = 1
    /\ frees = [b \in BufIds |-> 0]
    /\ uaf = FALSE
    /\ status = "alive"
    /\ call = Call("OpenMem", Len(bytes), 0, FALSE, 0, 1, <<>>)
    /\ track = FALSE
    /\ wlog = <<>>
    /\ saved = NoSave
    /\ rpos = -1
    /\ rlog = NoReads

LineNext ==
  \/ \E buffer_size \in LineSizes : FGets(buffer_size)
  \/ Rewind

LineSpec == LineInit /\ [][LineNext]_vars

\* -------------------------------------------------------------- RewindSpec
\* The arguments of the logged reads: one byte, two elements of two bytes,
\* and a product that does not fit an int, for FRead; one element of two
\* bytes for FReadEndian; room for one and for two characters for FGets.
RewindArgs == {<<1, 1>>, <<2, 2>>, <<3, 1431655766>>}
SwapArgs == {<<2, 1>>}
RewindLines == {2, 3}

\* A read session opened on at most MaxData bytes, with the reads logged.
RewindInit ==
  \E bytes \in Seqs(Byte, MaxData) :
    /\ offset_ = 0
    /\ data_ = 1
    /\ data_is_owned_ = TRUE
    /\ is_writing_ = FALSE
    /\ swap_ = FALSE
    /\ heap = [b \in BufIds |-> IF b = Ext THEN <<97>>
                                ELSE IF b = 1 THEN bytes ELSE <<>>]
    /\ nalloc = 1
    /\ frees = [b \in BufIds |-> 0]
    /\ uaf = FALSE
    /\ status = "alive"
    /\ call = Call("OpenMem", Len(bytes), 0, FALSE, 0, 1, <<>>)
    /\ track = TRUE
    /\ wlog = <<>>
    /\ saved = NoSave
    /\ rpos = -1
    /\ rlog = NoReads

\* The swap flag is set before the first read; at most MaxReads reads are
\* made before the first Rewind; after a Rewind the logged reads are made
\* again, in order, and Rewind may be called at any point.
RewindNext ==
  \/ rlog = NoReads /\ \E value \in BOOLEAN : SetSwap(value)
  \/ /\ ~rlog.rewound
     /\ Len(rlog.first) < MaxReads
     /\ \/ \E a \in RewindArgs :
             \E prod \in MulOutcomes(a[1], a[2]) :
               FRead(FALSE, a[1], a[2], prod)
        \/ \E a \in SwapArgs :
             \E prod \in MulOutcomes(a[1], a[2]) :
               FReadEndian(FALSE, a[1], a[2], prod)
        \/ \E buffer_size \in RewindLines : FGets(buffer_size)
  \/ Rewind
  \/ /\ rlog.rewound
     /\ Len(rlog.again) < Len(rlog.first)
     /\ LET c == rlog.first[Len(rlog.again) + 1]
        IN  \/ /\ c.op = "FRead"
               /\ \E prod \in MulOutcomes(c.size, c.count) :
                    FRead(c.null, c.size, c.count, prod)
            \/ /\ c.op = "FReadEndian"
               /\ \E prod \in MulOutcomes(c.size, c.count) :
                    FReadEndian(c.null, c.size, c.count, prod)
            \/ c.op = "FGets" /\ FGets(c.size)

RewindSpec == RewindInit /\ [][RewindNext]_vars

\* -------------------------------------------------------------- HandleSpec
\* Open(FILE*, end_offset) alone, on a new object and then on the object an
\* earlier Open(FILE*) left, with the handle and the results logged.
HandleInit ==
  /\ offset_ = 0
  /\ data_ = Null
  /\ data_is_owned_ = FALSE
  /\ is_writing_ = FALSE
  /\ swap_ = FALSE
  /\ heap = [b \in BufIds |-> IF b = Ext THEN <<97>> ELSE <<>>]
  /\ nalloc = 0
  /\ frees = [b \in BufIds |-> 0]
  /\ uaf = FALSE
  /\ status = "alive"
  /\ call = Call("TFile", 0, 0, FALSE, 0, 0, <<>>)
  /\ track = TRUE
  /\ wlog = <<>>
  /\ saved = NoSave
  /\ rpos = -1
  /\ rlog = NoReads

HandleNext ==
  \E io \in FpResults :
    \E file \in FpFiles(Byte, io) :
      \E pos \in 0..Len(file) :
        \E end_offset \in FpEnds(file, pos, io) :
          \E nread \in FpReads(file, pos, end_offset, io) :
            \E tailbytes \in FpTails(Fill, file, pos, end_offset, nread, io) :
              OpenFp(file, pos, end_offset, io.tell_ok, io.end_ok,
                     io.set_ok, nread, tailbytes)

HandleSpec == HandleInit /\ [][HandleNext]_vars
\* ================================================================== claims
ReadOps == {"FGets", "FRead", "FReadEndian", "Rewind"}
WriteOps == {"FWrite", "CloseWrite"}
OpenOps == {"OpenPath", "OpenMem", "OpenFp"}
Min(a, b) == IF a < b THEN a ELSE b

\* C1: mode exclusivity.  A call of FGets, FRead, FReadEndian or Rewind made
\* in Writing mode, and a call of FWrite or CloseWrite made in Reading mode,
\* ends in the fatal assertion, and the step changes neither the cursor nor
\* any vector nor which vector the object holds.
ModeExclusivity ==
  [][ ( /\ status = "alive"
        /\ \/ is_writing_ /\ call'.op \in ReadOps
           \/ ~is_writing_ /\ call'.op \in WriteOps )
      => ( /\ status' = "assert"
           /\ offset_' = offset_
           /\ heap' = heap
           /\ data_' = data_
           /\ frees' = frees ) ]_vars

\* A read was refused in a write session that had written to its vector.
ModeExclusivityWitness ==
  /\ status = "assert"
  /\ is_writing_
  /\ call.op = "FReadEndian"
  /\ Len(heap[data_]) > 0

\* C2: the cursor bound.  Whenever the object holds a vector,
\* 0 <= offset_ <= the vector's length.
CursorInBounds ==
  data_ /= Null => (0 <= offset_ /\ offset_ <= Len(heap[data_]))

\* An FRead that asked for more bytes than were left and stopped at the end.
CursorInBoundsWitness ==
  /\ status = "alive"
  /\ call.op = "FRead"
  /\ call.size = 2
  /\ call.count = 1
  /\ call.off0 + 2 > Len(heap[data_])
  /\ offset_ > call.off0
  /\ offset_ = Len(heap[data_])

\* C5: ownership.  No vector is deleted twice, the caller's vector is never
\* deleted, no deleted vector is dereferenced, the one vector the object has
\* allocated and not yet deleted is the one it holds as owned, and after
\* destruction every vector the object allocated has been deleted once.
OwnershipSafe ==
  /\ \A b \in OwnIds : frees[b] <= 1
  /\ frees[Ext] = 0
  /\ ~uaf
  /\ \A b \in OwnIds :
       (b <= nalloc /\ frees[b] = 0)
         => (status /= "destroyed" /\ data_is_owned_ /\ data_ = b)
  /\ \A b \in OwnIds : b > nalloc => frees[b] = 0
  /\ data_is_owned_ => data_ \in OwnIds

\* Two allocated vectors, one deleted when OpenWrite adopted the caller's
\* vector and one by the destructor, after the caller's vector was used.
OwnershipSafeWitness ==
  /\ status = "destroyed"
  /\ nalloc = 2
  /\ frees[1] = 1
  /\ frees[2] = 1
  /\ Len(heap[Ext]) > 1

\* C6: the mode is fixed within a session.  A step that changes is_writing_
\* is a call of an Open overload or of OpenWrite.
ModeFixedInSession ==
  [][ is_writing_' /= is_writing_
      => call'.op \in (OpenOps \cup {"OpenWrite"}) ]_vars

\* A write session that has written and been closed is still a write session.
ModeFixedInSessionWitness ==
  /\ status = "alive"
  /\ call.op = "CloseWrite"
  /\ is_writing_
  /\ Len(heap[data_]) > 0

\* C3: every Open overload and OpenWrite, whether it succeeds or fails,
\* returns with offset_ = 0 and swap_ = FALSE.
OpenResetsCursorAndSwap ==
  (status = "alive" /\ call.op \in (OpenOps \cup {"OpenWrite"}))
    => (offset_ = 0 /\ swap_ = FALSE)

\* C4: every Open overload returns in Reading mode, holding no vector that
\* it does not own.
OpenStartsReadSession ==
  (status = "alive" /\ call.op \in OpenOps)
    => (~is_writing_ /\ (data_ = Null \/ data_is_owned_))

\* The bytes of the held vector from the cursor on entry of the last call.
Rest == SubSeq(heap[data_], call.off0 + 1, Len(heap[data_]))

\* s is a prefix of t.
IsPrefix(s, t) == Len(s) <= Len(t) /\ \A i \in 1..Len(s) : s[i] = t[i]

\* An FRead with size > 0 and count > 0 that returned, in a read session.
ReadReturned ==
  /\ status = "alive"
  /\ call.op = "FRead"
  /\ data_ /= Null
  /\ call.size > 0
  /\ call.count > 0

\* C7: the clamped read result.  FRead with size > 0 and count > 0 returns
\* floor(min(size * count, length - cursor) / size), which for positive size
\* and count is min(count, floor((length - cursor) / size)), so 0 at the end
\* of the vector; and what it stores through a non-null buffer are the
\* vector's bytes from the old cursor on.
ClampedReadResult ==
  ReadReturned
    => /\ call.ret = Min(call.count, Len(Rest) \div call.size)
       /\ ~call.null => IsPrefix(call.out, Rest)

\* C8: whole elements only.  After FRead with size > 0 and count > 0 the
\* cursor is the old cursor plus size times the returned count, and no more
\* than that many bytes are stored.
WholeElementsOnly ==
  ReadReturned
    => /\ offset_ = call.off0 + call.size * call.ret
       /\ Len(call.out) <= call.size * call.ret

\* The value of the int expression size * count for size > 0 and count > 0:
\* the product if it fits an int, else the low 32 bits of it.
IntProduct(size, count) ==
  IF count <= 2147483647 \div size THEN size * count ELSE Mul32(size, count)

\* C8 as amended: the cursor advances by the clamped byte amount itself,
\* min(size * count, length - cursor) with size * count the int the code
\* computes (nothing when that is <= 0), not rounded down to whole elements;
\* a non-null buffer receives that many bytes; the value returned is that
\* amount divided by size, rounded down.
ClampedBytesConsumed ==
  ReadReturned
    => LET p == IntProduct(call.size, call.count)
           amount == IF p <= 0 THEN 0 ELSE Min(p, Len(Rest))
       IN  /\ offset_ = call.off0 + amount
           /\ call.ret = amount \div call.size
           /\ ~call.null => call.out = SubSeq(Rest, 1, amount)

\* Two elements of two bytes asked for with three bytes left: one element
\* is returned and all three bytes are stored and consumed.
ClampedBytesConsumedWitness ==
  /\ ReadReturned
  /\ call.size = 2
  /\ call.count = 2
  /\ call.off0 = 1
  /\ call.ret = 1
  /\ Len(call.out) = 3
  /\ offset_ = 4

\* An FRead that read back the write logged at rpos, after the saved bytes
\* were opened for reading.
ReadBack ==
  /\ status = "alive"
  /\ call.op = "FRead"
  /\ saved.valid
  /\ rpos >= 1

\* C9: the round trip.  Reading the saved bytes back with the (size, count)
\* of the writes, each FRead stores exactly the bytes its FWrite appended and
\* returns its full count.
RoundTripFullCount ==
  ReadBack
    => /\ call.out = saved.log[rpos].bytes
       /\ call.ret = saved.log[rpos].count

\* C9 as amended: each FRead stores exactly the bytes its FWrite appended
\* and returns the number of whole elements in them, 0 if the FWrite
\* appended nothing; that is its full count whenever size and count are
\* positive and size * count fits an int.
RoundTrip ==
  ReadBack
    => LET w == saved.log[rpos]
       IN  /\ call.out = w.bytes
           /\ call.ret = IF Len(w.bytes) = 0 THEN 0
                         ELSE CDiv(Len(w.bytes), w.size)
           /\ (w.size > 0 /\ w.count > 0
               /\ w.count <= 2147483647 \div w.size)
                => (call.ret = w.count /\ Len(call.out) = w.size * w.count)

\* A one-byte record and a two-byte record written, saved, reopened, and
\* the second record read back in full.
RoundTripWitness ==
  /\ ReadBack
  /\ rpos = 2
  /\ saved.log[1].bytes = <<10>>
  /\ call.size = 2
  /\ call.ret = 1
  /\ call.out = <<97, 10>>
  /\ offset_ = 3

\* An FReadEndian with a non-null buffer that returned.
SwappedRead ==
  /\ status = "alive"
  /\ call.op = "FReadEndian"
  /\ data_ /= Null
  /\ ~call.null

\* What FRead stores for the same call: the bytes between the old cursor
\* and the new one.
Plain == SubSeq(heap[data_], call.off0 + 1, offset_)

\* Byte k of buf after each of the first n elements of sz bytes is reversed.
Mirror(buf, sz, n, k) ==
  IF n > 0 /\ sz > 0 /\ k <= n * sz
    THEN buf[((k - 1) \div sz) * sz + sz - ((k - 1) % sz)]
    ELSE buf[k]

\* C10: the endian swap.  With swap_ set, byte j of each returned element
\* is byte size + 1 - j of the same element of what FRead stores; with swap_
\* clear the stored bytes are what FRead stores; and reversing each stored
\* element once more gives the vector's bytes back.
EndianSwap ==
  SwappedRead
    => /\ Len(call.out) = Len(Plain)
       /\ swap_ =>
            \A e \in 0..(call.ret - 1) : \A j \in 1..call.size :
              call.out[e * call.size + j]
                = Plain[e * call.size + call.size + 1 - j]
       /\ ~swap_ => call.out = Plain
       /\ swap_ =>
            \A k \in 1..Len(call.out) :
              Mirror(call.out, call.size, call.ret, k) = Plain[k]

\* Two two-byte elements, each reversed in place: reversing the four bytes
\* as one block would have stored them unchanged.
EndianSwapWitness ==
  /\ SwappedRead
  /\ swap_
  /\ call.size = 2
  /\ call.ret = 2
  /\ heap[data_] = <<97, 10, 10, 97>>
  /\ call.out = <<10, 97, 97, 10>>

\* An FGets that returned, in a read session.
LineRead ==
  /\ status = "alive"
  /\ call.op = "FGets"
  /\ data_ /= Null

\* C11: the line read.  FGets with buffer_size >= 1 copies the vector's bytes
\* from the old cursor up to the first of: a newline (copied too),
\* buffer_size - 1 bytes, the end of the vector; moves the cursor by the
\* number of bytes copied; stores a zero byte right after them and nothing at
\* or beyond index buffer_size.  On "ab\ncd" with buffer_size 10 the calls
\* give "ab\n" (cursor 3), "cd" (cursor 5) and then nullptr.
LineCopied ==
  (LineRead /\ call.size >= 1)
    => LET n == offset_ - call.off0
       IN  /\ 0 <= n /\ n <= call.size - 1 /\ n <= Len(Rest)
           /\ \A i \in 1..(n - 1) : Rest[i] /= 10
           /\ \/ n = call.size - 1
              \/ n = Len(Rest)
              \/ (n > 0 /\ Rest[n] = 10)
           /\ call.out = SubSeq(Rest, 1, n) \o <<NUL>>
           /\ Len(call.out) <= call.size
           /\ (heap[data_] = Sample /\ call.size = 10) =>
                /\ call.off0 = 0 =>
                     (call.out = <<97, 98, 10, NUL>> /\ offset_ = 3
                      /\ call.ret = 1)
                /\ call.off0 = 3 =>
                     (call.out = <<99, 100, NUL>> /\ offset_ = 5
                      /\ call.ret = 1)
                /\ call.off0 = 5 => (call.ret = 0 /\ offset_ = 5)

\* The second line of the sample text, read after the first: it ends at the
\* end of the vector, without a newline.
LineCopiedWitness ==
  /\ LineRead
  /\ heap[data_] = Sample
  /\ call.size = 10
  /\ call.off0 = 3
  /\ call.out = <<99, 100, NUL>>
  /\ offset_ = 5

\* C12: FGets returns nullptr if and only if the cursor was at the end of
\* the vector when it was called, whatever buffer_size is.
NullOnlyAtEnd ==
  LineRead => ((call.ret = 0) <=> (call.off0 = Len(heap[data_])))

\* C13: Rewind.  In Reading mode Rewind sets the cursor to 0 and changes
\* neither the vector nor the mode nor the swap flag (so a second Rewind
\* changes nothing); and the read calls of the session, made again in the
\* same order after Rewind, start at the same cursors, return the same values
\* and store the same bytes as the first time.
RewindReplays ==
  [][ /\ (status = "alive" /\ ~is_writing_ /\ call'.op = "Rewind")
           => /\ status' = "alive"
              /\ offset_' = 0
              /\ heap' = heap
              /\ <<data_, data_is_owned_, is_writing_, swap_>>'
                   = <<data_, data_is_owned_, is_writing_, swap_>>
      /\ (status' = "alive" /\ rlog'.rewound)
           => \A k \in 1..Len(rlog'.again) :
                (k <= Len(rlog'.first)
                 /\ \A j \in 1..k :
                      /\ rlog'.again[j].op = rlog'.first[j].op
                      /\ rlog'.again[j].size = rlog'.first[j].size
                      /\ rlog'.again[j].count = rlog'.first[j].count
                      /\ rlog'.again[j].null = rlog'.first[j].null)
                  => /\ rlog'.again[k].off0 = rlog'.first[k].off0
                     /\ rlog'.again[k].ret = rlog'.first[k].ret
                     /\ rlog'.again[k].out = rlog'.first[k].out ]_vars

\* A line and then a swapped element were read, Rewind was called with the
\* cursor moved, and both reads were made again with the same results.
RewindReplaysWitness ==
  /\ status = "alive"
  /\ rlog.rewound
  /\ Len(rlog.first) = 2
  /\ rlog.again = rlog.first
  /\ rlog.first[1].op = "FGets"
  /\ rlog.first[1].ret = 1
  /\ rlog.first[2].op = "FReadEndian"
  /\ rlog.first[2].ret = 1
  /\ rlog.first[2].off0 > 0
  /\ swap_

\* C14: OpenWrite.  From any state OpenWrite returns with offset_ = 0, in
\* Writing mode, with swap_ clear and the held vector empty; given the
\* caller's vector the object holds that vector, not owned, its earlier
\* contents gone; given nullptr it holds a vector it owns.
OpenWriteStartsEmpty ==
  (status = "alive" /\ call.op = "OpenWrite")
    => /\ offset_ = 0
       /\ is_writing_
       /\ ~swap_
       /\ data_ /= Null
       /\ Len(heap[data_]) = 0
       /\ ~call.null => (data_ = Ext /\ ~data_is_owned_)
       /\ call.null => (data_is_owned_ /\ data_ \in OwnIds /\ frees[data_] = 0)

\* The caller's vector adopted from a read session whose cursor had moved:
\* the owned vector of that session was deleted.
OpenWriteStartsEmptyWitness ==
  /\ status = "alive"
  /\ call.op = "OpenWrite"
  /\ ~call.null
  /\ call.off0 > 0
  /\ frees[1] = 1
  /\ data_ = Ext

\* The bytes of the caller's buffer the last logged FWrite was given.
Written == wlog[Len(wlog)].bytes

\* Whether size * count, for size >= 0 and count >= 0, fits an int.
Fits(size, count) == size = 0 \/ count <= 2147483647 \div size

\* C15: FWrite.  In Writing mode, for every size >= 0 and count >= 0, FWrite
\* appends exactly size * count bytes of the caller's buffer to the vector
\* (the earlier contents stay as a prefix), returns count, and changes neither
\* the cursor nor the mode nor the swap flag.
WriteAppendsAll ==
  [][ (status = "alive" /\ is_writing_ /\ call'.op = "FWrite"
       /\ call'.size >= 0 /\ call'.count >= 0)
        => /\ status' = "alive"
           /\ Fits(call'.size, call'.count)
           /\ Len(heap'[data_])
                = Len(heap[data_])
                  + (IF Fits(call'.size, call'.count)
                       THEN call'.size * call'.count ELSE 0)
           /\ heap'[data_] = heap[data_] \o Written'
           /\ call'.ret = call'.count
           /\ <<offset_, is_writing_, swap_>>' = <<offset_, is_writing_, swap_>>
    ]_vars

\* C15 as amended: a returning FWrite, with p the int the code computes for
\* size * count, appends exactly p bytes of the caller's buffer and returns
\* count if p > 0, and appends nothing and returns 0 if p <= 0 (so whenever
\* size or count is 0); it changes neither the cursor nor the mode nor the
\* swap flag nor which vector is held.
WriteAppendsProduct ==
  [][ (status = "alive" /\ is_writing_ /\ call'.op = "FWrite"
       /\ call'.size >= 0 /\ call'.count >= 0 /\ status' = "alive")
        => LET p == IF call'.size = 0 \/ call'.count = 0 THEN 0
                    ELSE IntProduct(call'.size, call'.count)
           IN  /\ Len(Written') = (IF p > 0 THEN p ELSE 0)
               /\ heap'[data_] = heap[data_] \o Written'
               /\ call'.ret = (IF p > 0 THEN call'.count ELSE 0)
               /\ Fits(call'.size, call'.count) => p = call'.size * call'.count
               /\ <<offset_, is_writing_, swap_, data_, data_is_owned_>>'
                    = <<offset_, is_writing_, swap_, data_, data_is_owned_>>
    ]_vars

\* One element of two bytes appended after a byte written before it.
WriteAppendsProductWitness ==
  /\ status = "alive"
  /\ call.op = "FWrite"
  /\ call.size = 2
  /\ call.ret = 1
  /\ Len(wlog) = 2
  /\ Written = <<97, 10>>
  /\ heap[data_] = <<10, 97, 10>>

\* The bytes of the logged FWrite calls, in call order.
RECURSIVE Joined(_)
Joined(log) ==
  IF Len(log) = 0 THEN <<>> ELSE Joined(SubSeq(log, 1, Len(log) - 1))
                                   \o log[Len(log)].bytes

\* C16: CloseWrite.  In Writing mode CloseWrite hands the writer the whole
\* vector, which is the bytes of the FWrite calls since the last OpenWrite in
\* call order; returns what the writer returned; and changes neither the
\* vector nor the cursor nor the mode nor the swap flag nor the ownership.
CloseWriteSavesAll ==
  [][ (status = "alive" /\ is_writing_ /\ call'.op = "CloseWrite")
        => /\ status' = "alive"
           /\ saved'.valid
           /\ saved'.bytes = heap[data_]
           /\ saved'.bytes = Joined(wlog)
           /\ call'.ret = (IF saved'.ok THEN 1 ELSE 0)
           /\ heap' = heap
           /\ <<offset_, data_, data_is_owned_, is_writing_, swap_>>'
                = <<offset_, data_, data_is_owned_, is_writing_, swap_>>
    ]_vars

\* Two writes handed to a writer that failed: the failure is returned and
\* the three bytes are still in the vector.
CloseWriteSavesAllWitness ==
  /\ status = "alive"
  /\ call.op = "CloseWrite"
  /\ call.ret = 0
  /\ Len(saved.log) = 2
  /\ saved.bytes = <<10, 97, 10>>
  /\ heap[data_] = <<10, 97, 10>>
  /\ is_writing_

NullSkipSwapped ==
  [][ (status = "alive" /\ ~is_writing_ /\ data_ /= Null
       /\ call'.op = "FReadEndian" /\ call'.null)
        => /\ status' /= "segv"
           /\ call'.out = <<>>
           /\ heap' = heap
           /\ <<data_, data_is_owned_, is_writing_, swap_>>'
                = <<data_, data_is_owned_, is_writing_, swap_>>
    ]_vars

\* C19: no call dereferences a missing vector.  No call that got past its
\* mode assertion ends in a memory fault on data_ = nullptr.
BufferPresentWhenUsed ==
  ~(status = "segv" /\ data_ = Null)

\* C20: the value FRead returns.  For all int arguments an FRead that
\* returns gives 0 <= result <= max(count, 0), and gives 0 with the cursor
\* unchanged whenever size <= 0 or count <= 0 or size * count does not fit
\* an int.
ReadCountValid ==
  (status = "alive" /\ call.op = "FRead" /\ data_ /= Null)
    => /\ 0 <= call.ret
       /\ call.ret <= (IF call.count > 0 THEN call.count ELSE 0)
       /\ (call.size <= 0 \/ call.count <= 0
           \/ call.count > 2147483647 \div call.size)
            => (call.ret = 0 /\ offset_ = call.off0)

=============================================================================
